---- MODULE Spec2Model ----
(***************************************************************************)
(* A model of usb_mirroring.py: the reconciler (initial_sync), the event   *)
(* applier (the loop of start_monitoring), the availability checker        *)
(* (check_paths / is_mounted), the notifier (notify_host) and the mutation *)
(* gate (sync_lock).                                                       *)
(*                                                                         *)
(* A name is a sequence of characters and a path is a sequence of names,   *)
(* relative to its root (BOOT_USB on the primary side, BACKUP_DEST on the  *)
(* backup side).  A tree maps every path of the universe PathU to an entry *)
(* (nothing, a directory, or a regular file with its size and mtime).      *)
(***************************************************************************)
EXTENDS Integers, Sequences, FiniteSets, TLC

VARIABLES
    primary,                  \* the Primary Tree (never written by the program)
    backup,                   \* the Backup Tree
    dry_run_mode,             \* global dry_run_mode
    mounts,                   \* the lines of `df -T` after the header
    channel,                  \* the notify script: "ok", "fail", "missing"
    denied,                   \* backup paths whose write or removal fails (EACCES)
    now,                      \* time.time()
    last_error_notification,  \* global last_error_notification
    last_path_check,          \* local last_path_check of start_monitoring
    sync_lock,                \* global sync_lock: "free" or its holder
    pc,                       \* position of the main thread
    ret,                      \* the caller a gated operation returns to
    op,                       \* the backup-tree operation in flight
    walkDirs,                 \* os.walk: directories still to list
    walkFiles,                \* os.walk: files of the current directory left
    changes,                  \* local changes of initial_sync
    events,                   \* inotify events not yet consumed
    watching,                 \* the InotifyTree exists
    exitStatus,               \* the process's exit status, -1 while running
    sent,                     \* times of the notifications dispatched
    calls,                    \* history: the notify_host calls of the driver
    nctx,                     \* concurrent callers of notify_host
    lastCheck,                \* history: the last check_paths call
    exclTouched,              \* history: excluded paths an operation touched
    run,                      \* history: number of the current process run
    prevChanges,              \* history: changes reported by the previous run
    sawError,                 \* history: some operation raised
    nmut,                     \* history: primary mutations so far
    ticks,                    \* history: clock ticks so far
    alerts,                   \* history: the subjects of the notify_host calls
    recon,                    \* history: what the current initial_sync has done
    early,                    \* history: paths changed after the walk, before the watch
    delivered,                \* history: the event handed to the loop directly
    interrupts                \* history: user interrupts received

vars == <<primary, backup, dry_run_mode, mounts, channel, denied, now,
          last_error_notification, last_path_check, sync_lock, pc, ret, op,
          walkDirs, walkFiles, changes, events, watching, exitStatus, sent,
          calls, nctx, lastCheck, exclTouched, run, prevChanges, sawError,
          nmut, ticks, alerts, recon, early, delivered, interrupts>>

(***************************************************************************)
(* Bounds of the model.                                                    *)
(***************************************************************************)
MaxRuns == 2          \* process runs in SpecSync
MaxMutations == 3     \* primary mutations in SpecLive
MaxSpecMutations == 2 \* primary mutations in Spec
MaxQueue == 4         \* inotify events pending
MaxTicks == 2         \* clock ticks in Spec
MaxNotifyTicks == 21  \* clock ticks in SpecNotify
MaxCalls == 3         \* notify_host calls in SpecNotify and SpecNotify2
MaxMounts == 2        \* lines of the mount table in SpecMount
TickLen == 30         \* seconds per clock tick
StartTime == 1000     \* time.time() when the process starts

(***************************************************************************)
(* Configuration (lines 15-24, 258).                                       *)
(***************************************************************************)
BOOT_USB == <<"/", "b">>
BACKUP_DEST == <<"/", "m", "/", "u">>
EXCLUDED_PATHS == {<<"S", "V">>}
notification_cooldown == 300
path_check_interval == 60

NameC == <<"c">>
NameN == <<"n">>
NameX == <<"x", "S", "V">>

Root == <<>>
PathU == {Root, <<NameC>>, <<NameC, NameN>>, <<NameN>>, <<NameN, NameN>>,
          <<NameX>>, <<NameX, NameN>>}

\* The order in which a directory listing returns the universe's paths.
WalkOrder == << <<NameC>>, <<NameC, NameN>>, <<NameN>>, <<NameN, NameN>>,
                <<NameX>>, <<NameX, NameN>> >>

NoEntry == [k |-> "none", size |-> 0, mtime |-> 0]
Dir == [k |-> "dir", size |-> 0, mtime |-> 0]
File(s, m) == [k |-> "file", size |-> s, mtime |-> m]
Metas == {File(1, 1), File(1, 2), File(2, 1)}

Parent(p) == SubSeq(p, 1, Len(p) - 1)
Basename(p) == p[Len(p)]
IsPrefix(q, p) == Len(q) <= Len(p) /\ SubSeq(p, 1, Len(q)) = q

\* os.path.join of a root and a relative path, as a string.
RECURSIVE Flat(_)
Flat(p) == IF p = <<>> THEN <<>> ELSE <<"/">> \o Head(p) \o Flat(Tail(p))

PrimaryStr(p) == BOOT_USB \o Flat(p)

IsSubstring(pat, s) ==
    \E i \in 1..(Len(s) - Len(pat) + 1) : SubSeq(s, i, i + Len(pat) - 1) = pat

should_exclude(str) == \E excluded \in EXCLUDED_PATHS : IsSubstring(excluded, str)

\* get_backup_path: relpath normalises, so the root maps to BACKUP_DEST/"."
get_backup_path(p) ==
    IF p = Root THEN BACKUP_DEST \o <<"/", ".">> ELSE BACKUP_DEST \o Flat(p)

(***************************************************************************)
(* The filesystem calls the program makes.                                 *)
(***************************************************************************)
Kind(t, p) == IF p \in PathU THEN t[p].k ELSE "none"
Exists(t, p) == Kind(t, p) # "none"
Children(t, p) == {q \in PathU : Len(q) = Len(p) + 1 /\ Parent(q) = p /\ t[q].k # "none"}
Listing(S) == SelectSeq(WalkOrder, LAMBDA q : q \in S)

\* A tree in which an entry exists only inside a directory.
WellFormed(t) == \A p \in PathU \ {Root} : t[p].k # "none" => t[Parent(p)].k = "dir"

\* os.makedirs(p, exist_ok=True)
Makedirs(t, p) ==
    IF \E i \in 0..Len(p) : t[SubSeq(p, 1, i)].k = "file"
    THEN [ok |-> FALSE, t |-> t]
    ELSE [ok |-> TRUE, t |-> [q \in PathU |-> IF IsPrefix(q, p) THEN Dir ELSE t[q]]]

\* Mutant of Copy2: shutil.copy, which does not carry the mtime over.
Copy2NoStat(src, name, t, dst, den) ==
    LET target == IF t[dst].k = "dir" THEN Append(dst, name) ELSE dst
    IN  IF src.k # "file" \/ t[target].k = "dir" \/ target \in den
        THEN [ok |-> FALSE, t |-> t]
        ELSE [ok |-> TRUE, t |-> [t EXCEPT ![target] = File(src.size, 0)]]

\* shutil.copy2(src, dst): a dst that is a directory receives the file under
\* the source's name; size and mtime are those of the source.
Copy2(src, name, t, dst, den) ==
    LET target == IF t[dst].k = "dir" THEN Append(dst, name) ELSE dst
    IN  IF src.k # "file" \/ t[target].k = "dir" \/ target \in den
        THEN [ok |-> FALSE, t |-> t]
        ELSE [ok |-> TRUE, t |-> [t EXCEPT ![target] = src]]

\* Mutant of Remove: the call returns without removing the file.
RemoveKeeps(t, p, den) ==
    IF t[p].k # "file" \/ p \in den
    THEN [ok |-> FALSE, t |-> t]
    ELSE [ok |-> TRUE, t |-> t]

\* os.remove(p)
Remove(t, p, den) ==
    IF t[p].k # "file" \/ p \in den
    THEN [ok |-> FALSE, t |-> t]
    ELSE [ok |-> TRUE, t |-> [t EXCEPT ![p] = NoEntry]]

\* The loop of remove_file that removes empty parent directories (157-167).
RECURSIVE PruneFrom(_, _, _)
PruneFrom(t, d, den) ==
    IF d = Root THEN t
    ELSE IF t[d].k = "dir" /\ Children(t, d) = {} /\ d \notin den
         THEN PruneFrom([t EXCEPT ![d] = NoEntry], Parent(d), den)
         ELSE t

\* shutil.rmtree(p): on "BACKUP_DEST/." the contents go and the final rmdir
\* raises; an entry that cannot be removed stays, with the directories above it.
Rmtree(t, p, den) ==
    IF t[p].k # "dir"
    THEN [ok |-> FALSE, t |-> t]
    ELSE LET stays(q) == q = Root \/ \E r \in den : IsPrefix(q, r) /\ t[r].k # "none"
         IN  [ok |-> ~stays(p),
              t |-> [q \in PathU |-> IF IsPrefix(p, q) /\ ~stays(q) THEN NoEntry ELSE t[q]]]

(***************************************************************************)
(* notify_host (45-69).                                                    *)
(***************************************************************************)
\* Mutant of CooldownActive: the window's last instant still suppresses.
CooldownActiveInclusive(t, last) == t - last <= notification_cooldown

CooldownActive(t, last) == t - last < notification_cooldown

\* Mutant of NotifyHost: a dry-run call starts a cooldown window as well.
NotifyHostStamps(t, last, dry, ch) ==
    IF CooldownActive(t, last) THEN [last |-> last, sent |-> FALSE, logged |-> FALSE]
    ELSE IF dry THEN [last |-> t, sent |-> FALSE, logged |-> TRUE]
    ELSE IF ch = "ok" THEN [last |-> t, sent |-> TRUE, logged |-> FALSE]
    ELSE [last |-> last, sent |-> FALSE, logged |-> FALSE]

\* The new last_error_notification, whether the notify script ran and
\* succeeded, and whether the dry-run line of line 54 was logged.
NotifyHost(t, last, dry, ch) ==
    IF CooldownActive(t, last) THEN [last |-> last, sent |-> FALSE, logged |-> FALSE]
    ELSE IF dry THEN [last |-> last, sent |-> FALSE, logged |-> TRUE]
    ELSE IF ch = "ok" THEN [last |-> t, sent |-> TRUE, logged |-> FALSE]
    ELSE [last |-> last, sent |-> FALSE, logged |-> FALSE]

\* A call of notify_host by the main thread, with the alert it is to carry.
NotifiedAs(subject) ==
    LET r == NotifyHost(now, last_error_notification, dry_run_mode, channel)
    IN  /\ last_error_notification' = r.last
        /\ sent' = IF r.sent THEN Append(sent, now) ELSE sent
        /\ alerts' = Append(alerts, subject)

Notified == NotifiedAs("failure")

NoNotify == UNCHANGED <<last_error_notification, sent, alerts>>

\* What initial_sync has done so far: the backup tree it started from, the
\* paths whose copy or removal raised, the copies made, the orphans removed.
NoRecon(B) == [backup0 |-> B, failed |-> {}, copied |-> 0, removed |-> {}]

\* The except clause of an operation: log the error and call notify_host.
Raise(err) ==
    IF err THEN Notified /\ sawError' = TRUE ELSE NoNotify /\ UNCHANGED sawError

\* History: the paths containing an excluded pattern among those touched.
HasExcludedPattern(str) == \E pat \in EXCLUDED_PATHS : IsSubstring(pat, str)
Touch(S) == exclTouched' = exclTouched \cup {s \in S : HasExcludedPattern(s)}

(***************************************************************************)
(* is_mounted and check_paths (72-110).                                    *)
(***************************************************************************)
PseudoFs == {"rootfs", "tmpfs", "devtmpfs", "efivars", "overlay"}

\* The path is normalised and then never compared with a line of the table.
is_mounted(path, table) == \E i \in 1..Len(table) : table[i].fstype \notin PseudoFs

check_paths(table, B) ==
    IF ~is_mounted(BOOT_USB, table) THEN "boot not mounted"
    ELSE IF ~Exists(B, Root) THEN "destination not found"
    ELSE IF ~is_mounted(BACKUP_DEST, table) THEN "destination not a mount"
    ELSE "ok"

NoOp == [kind |-> "none", p |-> Root]

\* start_monitoring, lines 245-249: the startup check, then initial_sync begins.
StartCheck ==
    /\ pc = "start"
    /\ LET r == check_paths(mounts, backup)
       IN  /\ lastCheck' = [at |-> now, ok |-> r = "ok", table |-> mounts,
                            root |-> Exists(backup, Root)]
           /\ IF r = "ok"
              THEN /\ pc' = "fwd"
                   /\ walkDirs' = <<Root>>
                   /\ walkFiles' = <<>>
                   /\ changes' = 0
                   /\ recon' = NoRecon(backup)
                   /\ NoNotify
                   /\ UNCHANGED exitStatus
              ELSE /\ pc' = "exit"
                   /\ exitStatus' = 1
                   /\ NotifiedAs(r)
                   /\ UNCHANGED <<walkDirs, walkFiles, changes, recon>>
    /\ UNCHANGED <<primary, backup, dry_run_mode, mounts, channel, denied, now,
                   last_path_check, sync_lock, ret, op, events, watching, calls,
                   nctx, exclTouched, run, prevChanges, sawError, nmut, ticks,
                   early, delivered, interrupts>>

(***************************************************************************)
(* initial_sync (190-242).                                                 *)
(***************************************************************************)
\* Lines 207-220.
NeedsSync(P, B, f) ==
    \/ ~Exists(B, f)
    \/ ~Exists(P, f)
    \/ P[f].mtime # B[f].mtime
    \/ P[f].size # B[f].size

\* Lines 195-197: os.walk lists the next primary directory and drops the
\* excluded subdirectories.
WalkNextDir ==
    /\ pc = "fwd" /\ walkFiles = <<>> /\ walkDirs # <<>>
    /\ LET d == Head(walkDirs)
           kids == IF primary[d].k = "dir" THEN Children(primary, d) ELSE {}
       IN  /\ walkFiles' = Listing({q \in kids : primary[q].k = "file"})
           /\ walkDirs' = Listing({q \in kids : primary[q].k = "dir"
                                     /\ ~should_exclude(PrimaryStr(q))}) \o Tail(walkDirs)
           /\ Touch({PrimaryStr(d)})
    /\ UNCHANGED <<primary, backup, dry_run_mode, mounts, channel, denied, now,
                   last_error_notification, last_path_check, sync_lock, pc, ret, op,
                   changes, events, watching, exitStatus, sent, calls, nctx,
                   lastCheck, run, prevChanges, sawError, nmut, ticks,
                   alerts, recon, early, delivered, interrupts>>

\* Lines 199-224 for one file, up to the acquisition of sync_lock in sync_file.
SyncNextFile ==
    /\ pc = "fwd" /\ walkFiles # <<>>
    /\ LET f == Head(walkFiles)
       IN  /\ walkFiles' = Tail(walkFiles)
           /\ IF should_exclude(PrimaryStr(f))
              THEN UNCHANGED <<pc, ret, op, sync_lock, exclTouched>>
              ELSE /\ Touch({PrimaryStr(f), get_backup_path(f)})
                   /\ IF NeedsSync(primary, backup, f)
                      THEN /\ pc' = "locked"
                           /\ ret' = "fwd"
                           /\ op' = [kind |-> "copy", p |-> f]
                           /\ sync_lock' = "main"
                      ELSE UNCHANGED <<pc, ret, op, sync_lock>>
    /\ UNCHANGED <<primary, backup, dry_run_mode, mounts, channel, denied, now,
                   last_error_notification, last_path_check, walkDirs, changes,
                   events, watching, exitStatus, sent, calls, nctx, lastCheck, run,
                   prevChanges, sawError, nmut, ticks,
                   alerts, recon, early, delivered, interrupts>>

\* Line 227: the forward walk is over.
FwdDone ==
    /\ pc = "fwd" /\ walkFiles = <<>> /\ walkDirs = <<>>
    /\ IF dry_run_mode
       THEN pc' = "synced" /\ UNCHANGED walkDirs
       ELSE pc' = "orphan" /\ walkDirs' = <<Root>>
    /\ UNCHANGED <<primary, backup, dry_run_mode, mounts, channel, denied, now,
                   last_error_notification, last_path_check, sync_lock, ret, op,
                   walkFiles, changes, events, watching, exitStatus, sent, calls,
                   nctx, lastCheck, exclTouched, run, prevChanges, sawError, nmut,
                   ticks,
                   alerts, recon, early, delivered, interrupts>>

\* Line 228: os.walk lists the next backup directory.
OrphanNextDir ==
    /\ pc = "orphan" /\ walkFiles = <<>> /\ walkDirs # <<>>
    /\ LET d == Head(walkDirs)
           kids == IF backup[d].k = "dir" THEN Children(backup, d) ELSE {}
       IN  /\ walkFiles' = Listing({q \in kids : backup[q].k = "file"})
           /\ walkDirs' = Listing({q \in kids : backup[q].k = "dir"}) \o Tail(walkDirs)
           /\ Touch({BACKUP_DEST \o Flat(d)})
    /\ UNCHANGED <<primary, backup, dry_run_mode, mounts, channel, denied, now,
                   last_error_notification, last_path_check, sync_lock, pc, ret, op,
                   changes, events, watching, exitStatus, sent, calls, nctx,
                   lastCheck, run, prevChanges, sawError, nmut, ticks,
                   alerts, recon, early, delivered, interrupts>>

\* Lines 229-234 for one backup file.
OrphanNextFile ==
    /\ pc = "orphan" /\ walkFiles # <<>>
    /\ LET f == Head(walkFiles)
       IN  /\ walkFiles' = Tail(walkFiles)
           /\ Touch({PrimaryStr(f)})
           /\ IF ~Exists(primary, f)
              THEN pc' = "orphan_rm" /\ op' = [kind |-> "remove", p |-> f]
              ELSE UNCHANGED <<pc, op>>
    /\ UNCHANGED <<primary, backup, dry_run_mode, mounts, channel, denied, now,
                   last_error_notification, last_path_check, sync_lock, ret,
                   walkDirs, changes, events, watching, exitStatus, sent, calls,
                   nctx, lastCheck, run, prevChanges, sawError, nmut, ticks,
                   alerts, recon, early, delivered, interrupts>>

\* Mutant of OrphanRemove: a removal that raises ends the walk.
OrphanRemoveAborts ==
    /\ pc = "orphan_rm"
    /\ LET r == Remove(backup, op.p, denied)
       IN  /\ backup' = r.t
           /\ changes' = IF r.ok THEN changes + 1 ELSE changes
           /\ sawError' = (sawError \/ ~r.ok)
           /\ recon' = IF r.ok
                       THEN [recon EXCEPT !.removed = @ \cup {op.p}]
                       ELSE [recon EXCEPT !.failed = @ \cup {op.p}]
           /\ walkDirs' = IF r.ok THEN walkDirs ELSE <<>>
           /\ walkFiles' = IF r.ok THEN walkFiles ELSE <<>>
    /\ Touch({BACKUP_DEST \o Flat(op.p)})
    /\ pc' = "orphan"
    /\ op' = NoOp
    /\ UNCHANGED <<primary, dry_run_mode, mounts, channel, denied, now,
                   last_error_notification, last_path_check, sync_lock, ret,
                   events, watching, exitStatus, sent, calls,
                   nctx, lastCheck, run, prevChanges, nmut, ticks,
                   alerts, early, delivered, interrupts>>

\* Lines 235-240: os.remove of an orphan; a failure is logged, nothing more.
OrphanRemove ==
    /\ pc = "orphan_rm"
    /\ LET r == Remove(backup, op.p, denied)
       IN  /\ backup' = r.t
           /\ changes' = IF r.ok THEN changes + 1 ELSE changes
           /\ sawError' = (sawError \/ ~r.ok)
           /\ recon' = IF r.ok
                       THEN [recon EXCEPT !.removed = @ \cup {op.p}]
                       ELSE [recon EXCEPT !.failed = @ \cup {op.p}]
    /\ Touch({BACKUP_DEST \o Flat(op.p)})
    /\ pc' = "orphan"
    /\ op' = NoOp
    /\ UNCHANGED <<primary, dry_run_mode, mounts, channel, denied, now,
                   last_error_notification, last_path_check, sync_lock, ret,
                   walkDirs, walkFiles, events, watching, exitStatus, sent, calls,
                   nctx, lastCheck, run, prevChanges, nmut, ticks,
                   alerts, early, delivered, interrupts>>

\* Line 242: both walks are over.
OrphanDone ==
    /\ pc = "orphan" /\ walkFiles = <<>> /\ walkDirs = <<>>
    /\ pc' = "synced"
    /\ UNCHANGED <<primary, backup, dry_run_mode, mounts, channel, denied, now,
                   last_error_notification, last_path_check, sync_lock, ret, op,
                   walkDirs, walkFiles, changes, events, watching, exitStatus, sent,
                   calls, nctx, lastCheck, exclTouched, run, prevChanges, sawError,
                   nmut, ticks,
                   alerts, recon, early, delivered, interrupts>>

\* initial_sync as a function of the two trees, when no write or removal is
\* denied: the forward pass (195-224), then the orphan pass (227-240).
RECURSIVE ForwardPass(_, _, _, _)
ForwardPass(P, B, dirs, files) ==
    IF files # <<>>
    THEN LET f == Head(files)
             B1 == IF should_exclude(PrimaryStr(f)) \/ ~NeedsSync(P, B, f) THEN B
                   ELSE LET m == Makedirs(B, Parent(f))
                        IN  IF ~m.ok THEN B
                            ELSE Copy2(P[f], Basename(f), m.t, f, {}).t
         IN  ForwardPass(P, B1, dirs, Tail(files))
    ELSE IF dirs # <<>>
    THEN LET kids == IF P[Head(dirs)].k = "dir" THEN Children(P, Head(dirs)) ELSE {}
         IN  ForwardPass(P, B,
                         Listing({q \in kids : P[q].k = "dir"
                                    /\ ~should_exclude(PrimaryStr(q))}) \o Tail(dirs),
                         Listing({q \in kids : P[q].k = "file"}))
    ELSE B

RECURSIVE OrphanPass(_, _, _, _)
OrphanPass(P, B, dirs, files) ==
    IF files # <<>>
    THEN LET f == Head(files)
             B1 == IF Exists(P, f) THEN B ELSE Remove(B, f, {}).t
         IN  OrphanPass(P, B1, dirs, Tail(files))
    ELSE IF dirs # <<>>
    THEN LET kids == IF B[Head(dirs)].k = "dir" THEN Children(B, Head(dirs)) ELSE {}
         IN  OrphanPass(P, B,
                        Listing({q \in kids : B[q].k = "dir"}) \o Tail(dirs),
                        Listing({q \in kids : B[q].k = "file"}))
    ELSE B

initial_sync(dry, P, B) ==
    IF dry THEN B
    ELSE OrphanPass(P, ForwardPass(P, B, <<Root>>, <<>>), <<Root>>, <<>>)

(***************************************************************************)
(* sync_file, remove_file and remove_directory: what runs inside           *)
(* `with sync_lock:` and whether it raises (122-188).                      *)
(***************************************************************************)
\* Mutant of SyncFileBody: the copy is made in dry-run mode too.
SyncFileBodyAlways(dry, P, B, p, den) ==
    LET m == Makedirs(B, Parent(p))
    IN  IF ~m.ok THEN [t |-> B, err |-> TRUE]
        ELSE LET c == Copy2(P[p], Basename(p), m.t, p, den)
             IN  [t |-> c.t, err |-> ~c.ok]

SyncFileBody(dry, P, B, p, den) ==
    IF dry THEN [t |-> B, err |-> FALSE]
    ELSE LET m == Makedirs(B, Parent(p))
         IN  IF ~m.ok THEN [t |-> B, err |-> TRUE]
             ELSE LET c == Copy2(P[p], Basename(p), m.t, p, den)
                  IN  [t |-> c.t, err |-> ~c.ok]

RemoveFileBody(dry, B, p, den) ==
    IF ~Exists(B, p) \/ dry THEN [t |-> B, err |-> FALSE]
    ELSE LET r == Remove(B, p, den)
         IN  IF ~r.ok THEN [t |-> B, err |-> TRUE]
             ELSE [t |-> PruneFrom(r.t, Parent(p), den), err |-> FALSE]

RemoveDirectoryBody(dry, B, p, den) ==
    IF ~Exists(B, p) \/ dry THEN [t |-> B, err |-> FALSE]
    ELSE LET r == Rmtree(B, p, den)
         IN  [t |-> r.t, err |-> ~r.ok]

GatedBody(kind, dry, P, B, p, den) ==
    IF kind = "copy" THEN SyncFileBody(dry, P, B, p, den)
    ELSE IF kind = "remove_file" THEN RemoveFileBody(dry, B, p, den)
    ELSE RemoveDirectoryBody(dry, B, p, den)

\* The backup paths that differ between two trees.
Changed(B1, B2) == {BACKUP_DEST \o Flat(q) : q \in {x \in PathU : B1[x] # B2[x]}}

\* The body of the operation that holds sync_lock, its except clause, and the
\* release of the lock; initial_sync then counts the call (line 224).
RunOp ==
    /\ pc = "locked"
    /\ LET r == GatedBody(op.kind, dry_run_mode, primary, backup, op.p, denied)
       IN  /\ backup' = r.t
           /\ Raise(r.err)
           /\ Touch(Changed(backup, r.t))
           /\ recon' = IF ret # "fwd" THEN recon
                       ELSE IF r.err THEN [recon EXCEPT !.failed = @ \cup {op.p}]
                       ELSE IF dry_run_mode THEN recon
                       ELSE [recon EXCEPT !.copied = @ + 1]
    /\ sync_lock' = "free"
    /\ pc' = ret
    /\ op' = NoOp
    /\ changes' = IF ret = "fwd" THEN changes + 1 ELSE changes
    /\ UNCHANGED <<primary, dry_run_mode, mounts, channel, denied, now,
                   last_path_check, ret, walkDirs, walkFiles, events, watching,
                   exitStatus, calls, nctx, lastCheck, run, prevChanges, nmut,
                   ticks, early, delivered, interrupts>>

(***************************************************************************)
(* start_monitoring (244-315).                                             *)
(***************************************************************************)
\* Lines 251-257: the watch is created and last_path_check initialised.
WatchBegin ==
    /\ pc = "synced"
    /\ pc' = "loop"
    /\ watching' = TRUE
    /\ last_path_check' = now
    /\ UNCHANGED <<primary, backup, dry_run_mode, mounts, channel, denied, now,
                   last_error_notification, sync_lock, ret, op, walkDirs,
                   walkFiles, changes, events, exitStatus, sent, calls, nctx,
                   lastCheck, exclTouched, run, prevChanges, sawError, nmut, ticks,
                   alerts, recon, early, delivered, interrupts>>

\* Mutant of CheckDue: the check waits until more than the interval has passed.
CheckDueStrict(t, last) == t - last > path_check_interval

\* Line 264.
CheckDue(t, last) == t - last >= path_check_interval

\* os.path.join(path, filename): an empty filename leaves a trailing slash.
FullPath(e) == IF e.filename = <<>> THEN e.path ELSE Append(e.path, e.filename)
Slash(e) == e.filename = <<>>
IsFile(P, e) == ~Slash(e) /\ Kind(P, FullPath(e)) = "file"
PathExists(P, e) == IF Slash(e) THEN Kind(P, FullPath(e)) = "dir" ELSE Exists(P, FullPath(e))

\* Mutant of Dispatch: the directory-deleted branch is tested before the
\* file-deleted branch.
DispatchTreeFirst(e, P) ==
    IF should_exclude(PrimaryStr(FullPath(e))) THEN "none"
    ELSE IF "IN_CLOSE_WRITE" \in e.types \/ "IN_MOVED_TO" \in e.types
         THEN IF IsFile(P, e) THEN "copy" ELSE "none"
    ELSE IF ("IN_DELETE_SELF" \in e.types \/ "IN_MOVED_FROM" \in e.types)
            /\ ~PathExists(P, e)
         THEN IF should_exclude(get_backup_path(FullPath(e))) THEN "none" ELSE "rmtree"
    ELSE IF "IN_DELETE" \in e.types \/ "IN_MOVED_FROM" \in e.types
         THEN IF should_exclude(get_backup_path(FullPath(e))) THEN "none" ELSE "remove_file"
    ELSE IF "IN_CREATE" \in e.types /\ "IN_ISDIR" \in e.types THEN "mkdir"
    ELSE "none"

\* Lines 273-294: the action an event is dispatched to, "none" for no action.
Dispatch(e, P) ==
    IF should_exclude(PrimaryStr(FullPath(e))) THEN "none"
    ELSE IF "IN_CLOSE_WRITE" \in e.types \/ "IN_MOVED_TO" \in e.types
         THEN IF IsFile(P, e) THEN "copy" ELSE "none"
    ELSE IF "IN_DELETE" \in e.types \/ "IN_MOVED_FROM" \in e.types
         THEN IF should_exclude(get_backup_path(FullPath(e))) THEN "none" ELSE "remove_file"
    ELSE IF "IN_DELETE_SELF" \in e.types \/ "IN_MOVED_FROM" \in e.types
         THEN IF PathExists(P, e) \/ should_exclude(get_backup_path(FullPath(e)))
              THEN "none" ELSE "rmtree"
    ELSE IF "IN_CREATE" \in e.types /\ "IN_ISDIR" \in e.types THEN "mkdir"
    ELSE "none"

\* One iteration of the loop at line 261, up to the acquisition of sync_lock.
HandleEvent ==
    /\ pc = "loop" /\ events # <<>>
    /\ events' = Tail(events)
    /\ LET e == Head(events)
           due == CheckDue(now, last_path_check)
           r == IF due THEN check_paths(mounts, backup) ELSE "ok"
           a == Dispatch(e, primary)
       IN  /\ lastCheck' = IF due THEN [at |-> now, ok |-> r = "ok", table |-> mounts,
                                        root |-> Exists(backup, Root)]
                           ELSE lastCheck
           /\ IF r # "ok"
              THEN /\ pc' = "exit"
                   /\ exitStatus' = 1
                   /\ NotifiedAs(r)
                   /\ UNCHANGED <<last_path_check, sync_lock, ret, op, exclTouched>>
              ELSE /\ last_path_check' = IF due THEN now ELSE last_path_check
                   /\ NoNotify
                   /\ UNCHANGED exitStatus
                   /\ Touch(IF should_exclude(PrimaryStr(FullPath(e))) THEN {}
                            ELSE {PrimaryStr(FullPath(e))})
                   /\ IF a = "none" THEN UNCHANGED <<pc, sync_lock, ret, op>>
                      ELSE IF a = "mkdir"
                      THEN /\ pc' = "mkdir"
                           /\ op' = [kind |-> a, p |-> FullPath(e)]
                           /\ UNCHANGED <<sync_lock, ret>>
                      ELSE /\ pc' = "locked"
                           /\ ret' = "loop"
                           /\ op' = [kind |-> a, p |-> FullPath(e)]
                           /\ sync_lock' = "main"
    /\ UNCHANGED <<primary, backup, dry_run_mode, mounts, channel, denied, now,
                   walkDirs, walkFiles, changes, watching, calls, nctx, run,
                   prevChanges, sawError, nmut, ticks,
                   recon, early, delivered, interrupts>>

\* Lines 295-303: the backup directory of a created directory; an error is
\* logged, nothing more.
MkdirBody(dry, B, p) ==
    IF dry THEN [t |-> B, err |-> FALSE]
    ELSE LET m == Makedirs(B, p) IN [t |-> m.t, err |-> ~m.ok]

MkdirEvent ==
    /\ pc = "mkdir"
    /\ LET r == MkdirBody(dry_run_mode, backup, op.p)
       IN  /\ backup' = r.t
           /\ sawError' = (sawError \/ r.err)
           /\ Touch(Changed(backup, r.t))
    /\ pc' = "loop"
    /\ op' = NoOp
    /\ UNCHANGED <<primary, dry_run_mode, mounts, channel, denied, now,
                   last_error_notification, last_path_check, sync_lock, ret,
                   walkDirs, walkFiles, changes, events, watching, exitStatus, sent,
                   calls, nctx, lastCheck, run, prevChanges, nmut, ticks,
                   alerts, recon, early, delivered, interrupts>>

(***************************************************************************)
(* The environment: whatever writes to the boot volume, the inotify events *)
(* the kernel queues for each change once the watch exists, the clock and  *)
(* the mount table.                                                        *)
(***************************************************************************)
FilePaths == {<<NameC, NameN>>, <<NameN>>, <<NameN, NameN>>, <<NameX, NameN>>}
DirPaths == {Root, <<NameC>>, <<NameN>>, <<NameX>>}
Mutable == {p \in PathU \ {Root} : ~HasExcludedPattern(PrimaryStr(p))}

Event(types, path, filename) == [types |-> types, path |-> path, filename |-> filename]

Emit(evs) ==
    /\ watching => Len(events) + Len(evs) <= MaxQueue
    /\ events' = IF watching THEN events \o evs ELSE events

Running(limit) == exitStatus = -1 /\ nmut < limit

\* History: a change of p made when the forward walk of initial_sync is over
\* and the watch of line 254 does not exist yet.
Late(p) ==
    early' = IF ~watching /\ pc \in {"orphan", "orphan_rm", "synced"}
             THEN early \cup {p} ELSE early

CreateFile(limit) ==
    /\ Running(limit)
    /\ \E p \in Mutable \cap FilePaths, m \in Metas :
          /\ primary[p].k = "none" /\ primary[Parent(p)].k = "dir"
          /\ primary' = [primary EXCEPT ![p] = m]
          /\ Emit(<<Event({"IN_CREATE"}, Parent(p), Basename(p)),
                    Event({"IN_CLOSE_WRITE"}, Parent(p), Basename(p))>>)
          /\ Late(p)
    /\ nmut' = nmut + 1
    /\ UNCHANGED <<backup, dry_run_mode, mounts, channel, denied, now,
                   last_error_notification, last_path_check, sync_lock, pc, ret, op,
                   walkDirs, walkFiles, changes, watching, exitStatus, sent, calls,
                   nctx, lastCheck, exclTouched, run, prevChanges, sawError, ticks,
                   alerts, recon, delivered, interrupts>>

ModifyFile(limit) ==
    /\ Running(limit)
    /\ \E p \in Mutable \cap FilePaths, m \in Metas :
          /\ primary[p].k = "file" /\ primary[p] # m
          /\ primary' = [primary EXCEPT ![p] = m]
          /\ Emit(<<Event({"IN_CLOSE_WRITE"}, Parent(p), Basename(p))>>)
          /\ Late(p)
    /\ nmut' = nmut + 1
    /\ UNCHANGED <<backup, dry_run_mode, mounts, channel, denied, now,
                   last_error_notification, last_path_check, sync_lock, pc, ret, op,
                   walkDirs, walkFiles, changes, watching, exitStatus, sent, calls,
                   nctx, lastCheck, exclTouched, run, prevChanges, sawError, ticks,
                   alerts, recon, delivered, interrupts>>

DeleteFile(limit) ==
    /\ Running(limit)
    /\ \E p \in Mutable \cap FilePaths :
          /\ primary[p].k = "file"
          /\ primary' = [primary EXCEPT ![p] = NoEntry]
          /\ Emit(<<Event({"IN_DELETE"}, Parent(p), Basename(p))>>)
          /\ Late(p)
    /\ nmut' = nmut + 1
    /\ UNCHANGED <<backup, dry_run_mode, mounts, channel, denied, now,
                   last_error_notification, last_path_check, sync_lock, pc, ret, op,
                   walkDirs, walkFiles, changes, watching, exitStatus, sent, calls,
                   nctx, lastCheck, exclTouched, run, prevChanges, sawError, ticks,
                   alerts, recon, delivered, interrupts>>

CreateDir(limit) ==
    /\ Running(limit)
    /\ \E p \in Mutable \cap DirPaths :
          /\ primary[p].k = "none" /\ primary[Parent(p)].k = "dir"
          /\ primary' = [primary EXCEPT ![p] = Dir]
          /\ Emit(<<Event({"IN_CREATE", "IN_ISDIR"}, Parent(p), Basename(p))>>)
          /\ Late(p)
    /\ nmut' = nmut + 1
    /\ UNCHANGED <<backup, dry_run_mode, mounts, channel, denied, now,
                   last_error_notification, last_path_check, sync_lock, pc, ret, op,
                   walkDirs, walkFiles, changes, watching, exitStatus, sent, calls,
                   nctx, lastCheck, exclTouched, run, prevChanges, sawError, ticks,
                   alerts, recon, delivered, interrupts>>

\* rmdir of an empty directory: the parent's watch reports IN_DELETE and the
\* directory's own watch IN_DELETE_SELF, in either order.
DeleteDir(limit) ==
    /\ Running(limit)
    /\ \E p \in Mutable \cap DirPaths, selfFirst \in BOOLEAN :
          /\ primary[p].k = "dir" /\ Children(primary, p) = {}
          /\ primary' = [primary EXCEPT ![p] = NoEntry]
          /\ LET del == Event({"IN_DELETE", "IN_ISDIR"}, Parent(p), Basename(p))
                 self == Event({"IN_DELETE_SELF"}, p, <<>>)
             IN  Emit(IF selfFirst THEN <<self, del>> ELSE <<del, self>>)
          /\ Late(p)
    /\ nmut' = nmut + 1
    /\ UNCHANGED <<backup, dry_run_mode, mounts, channel, denied, now,
                   last_error_notification, last_path_check, sync_lock, pc, ret, op,
                   walkDirs, walkFiles, changes, watching, exitStatus, sent, calls,
                   nctx, lastCheck, exclTouched, run, prevChanges, sawError, ticks,
                   alerts, recon, delivered, interrupts>>

Tick(limit) ==
    /\ ticks < limit
    /\ ticks' = ticks + 1
    /\ now' = now + TickLen
    /\ UNCHANGED <<primary, backup, dry_run_mode, mounts, channel, denied,
                   last_error_notification, last_path_check, sync_lock, pc, ret, op,
                   walkDirs, walkFiles, changes, events, watching, exitStatus, sent,
                   calls, nctx, lastCheck, exclTouched, run, prevChanges, sawError,
                   nmut,
                   alerts, recon, early, delivered, interrupts>>

Line(fstype, mnt) == [fstype |-> fstype, mnt |-> mnt]
GoodMounts == <<Line("rootfs", <<"/">>), Line("vfat", BOOT_USB), Line("cifs", BACKUP_DEST)>>
\* Both volumes unmounted: only the in-memory root is left.
BareMounts == <<Line("rootfs", <<"/">>)>>

\* The volumes are unmounted while the program runs.
Unmount ==
    /\ exitStatus = -1
    /\ mounts = GoodMounts
    /\ mounts' = BareMounts
    /\ UNCHANGED <<primary, backup, dry_run_mode, channel, denied, now,
                   last_error_notification, last_path_check, sync_lock, pc, ret, op,
                   walkDirs, walkFiles, changes, events, watching, exitStatus, sent,
                   calls, nctx, lastCheck, exclTouched, run, prevChanges, sawError,
                   nmut, ticks,
                   alerts, recon, early, delivered, interrupts>>

\* The process is started again on the trees the previous run left.
Restart ==
    /\ pc = "synced" /\ run < MaxRuns
    /\ pc' = "start"
    /\ run' = run + 1
    /\ prevChanges' = changes
    /\ changes' = 0
    /\ last_error_notification' = 0
    /\ sawError' = FALSE
    /\ UNCHANGED <<primary, backup, dry_run_mode, mounts, channel, denied, now,
                   last_path_check, sync_lock, ret, op, walkDirs, walkFiles, events,
                   watching, exitStatus, sent, calls, nctx, lastCheck, exclTouched,
                   nmut, ticks,
                   alerts, recon, early, delivered, interrupts>>

(***************************************************************************)
(* Initial states.                                                         *)
(***************************************************************************)
Contexts == {1, 2}
Idle == [pc |-> "idle", t |-> 0]

Entries == {NoEntry, Dir} \cup Metas
KindOK(t) ==
    \A p \in PathU : /\ t[p].k = "file" => p \in FilePaths
                     /\ t[p].k = "dir" => p \in DirPaths
Trees == {t \in [PathU -> Entries] : WellFormed(t) /\ KindOK(t)}
\* Trees whose root exists and whose files all have the same size and mtime.
PrimaryTrees == {t \in Trees : t[Root].k = "dir"
                               /\ \A p \in PathU : t[p].k = "file" => t[p] = File(1, 1)}
Empty == [p \in PathU |-> NoEntry]

\* What the program's variables hold when main() calls start_monitoring.
InitProgram ==
    /\ now = StartTime
    /\ last_error_notification = 0
    /\ last_path_check = 0
    /\ sync_lock = "free"
    /\ pc = "start"
    /\ ret = "none"
    /\ op = NoOp
    /\ walkDirs = <<>>
    /\ walkFiles = <<>>
    /\ changes = 0
    /\ events = <<>>
    /\ watching = FALSE
    /\ exitStatus = -1
    /\ sent = <<>>
    /\ calls = <<>>
    /\ nctx = [c \in Contexts |-> Idle]
    /\ lastCheck = [at |-> 0, ok |-> FALSE, table |-> <<>>, root |-> FALSE]
    /\ exclTouched = {}
    /\ run = 1
    /\ prevChanges = 0
    /\ sawError = FALSE
    /\ nmut = 0
    /\ ticks = 0
    /\ alerts = <<>>
    /\ recon = NoRecon(backup)
    /\ early = {}
    /\ delivered = <<>>
    /\ interrupts = 0

(***************************************************************************)
(* SpecSync: the reconciler on an unchanging primary tree, from every pair *)
(* of trees of the universe, run up to MaxRuns times.                      *)
(***************************************************************************)
InitSync ==
    /\ primary \in PrimaryTrees
    /\ backup \in Trees
    /\ dry_run_mode \in BOOLEAN
    /\ mounts = GoodMounts
    /\ channel = "ok"
    /\ denied \in {{}, {<<NameC, NameN>>}}
    /\ InitProgram

NextSync ==
    \/ StartCheck
    \/ WalkNextDir
    \/ SyncNextFile
    \/ RunOp
    \/ FwdDone
    \/ OrphanNextDir
    \/ OrphanNextFile
    \/ OrphanRemove
    \/ OrphanDone
    \/ Restart

SpecSync == InitSync /\ [][NextSync]_vars

(***************************************************************************)
(* SpecLive: the event loop, entered with the backup tree a mirror of the  *)
(* non-excluded part of the primary tree, while the primary tree changes.  *)
(***************************************************************************)
Mirror(P) == [p \in PathU |-> IF HasExcludedPattern(PrimaryStr(p)) THEN NoEntry ELSE P[p]]

InitLive ==
    /\ primary \in PrimaryTrees
    /\ backup = Mirror(primary)
    /\ dry_run_mode = FALSE
    /\ mounts = GoodMounts
    /\ channel = "ok"
    /\ denied = {}
    /\ now = StartTime
    /\ last_error_notification = 0
    /\ last_path_check = StartTime
    /\ sync_lock = "free"
    /\ pc = "loop"
    /\ ret = "none"
    /\ op = NoOp
    /\ walkDirs = <<>>
    /\ walkFiles = <<>>
    /\ changes = 0
    /\ events = <<>>
    /\ watching = TRUE
    /\ exitStatus = -1
    /\ sent = <<>>
    /\ calls = <<>>
    /\ nctx = [c \in Contexts |-> Idle]
    /\ lastCheck = [at |-> StartTime, ok |-> TRUE, table |-> GoodMounts, root |-> TRUE]
    /\ exclTouched = {}
    /\ run = 1
    /\ prevChanges = 0
    /\ sawError = FALSE
    /\ nmut = 0
    /\ ticks = 0
    /\ alerts = <<>>
    /\ recon = NoRecon(backup)
    /\ early = {}
    /\ delivered = <<>>
    /\ interrupts = 0

NextLive ==
    \/ HandleEvent
    \/ RunOp
    \/ MkdirEvent
    \/ CreateFile(MaxMutations)
    \/ ModifyFile(MaxMutations)
    \/ DeleteFile(MaxMutations)
    \/ CreateDir(MaxMutations)
    \/ DeleteDir(MaxMutations)

SpecLive == InitLive /\ [][NextLive]_vars

(***************************************************************************)
(* Spec: the whole program, from the startup check through initial_sync to *)
(* the event loop, while the primary tree changes, time passes and volumes *)
(* are mounted and unmounted.                                              *)
(***************************************************************************)
With(t, p, e) == [t EXCEPT ![p] = e]
RootOnly == With(Empty, Root, Dir)
SmallPrimary == {RootOnly,
                 With(With(RootOnly, <<NameC>>, Dir), <<NameC, NameN>>, File(1, 1))}
SmallBackup == {RootOnly, With(RootOnly, <<NameN>>, File(1, 2))}

Init ==
    /\ primary \in SmallPrimary
    /\ backup \in SmallBackup
    /\ dry_run_mode \in BOOLEAN
    /\ mounts = GoodMounts
    /\ channel = "ok"
    /\ denied = {}
    /\ InitProgram

Next ==
    \/ StartCheck
    \/ WalkNextDir
    \/ SyncNextFile
    \/ RunOp
    \/ FwdDone
    \/ OrphanNextDir
    \/ OrphanNextFile
    \/ OrphanRemove
    \/ OrphanDone
    \/ WatchBegin
    \/ HandleEvent
    \/ MkdirEvent
    \/ CreateFile(MaxSpecMutations)
    \/ ModifyFile(MaxSpecMutations)
    \/ DeleteFile(MaxSpecMutations)
    \/ CreateDir(MaxSpecMutations)
    \/ DeleteDir(MaxSpecMutations)
    \/ Tick(MaxTicks)
    \/ Unmount

Spec == Init /\ [][Next]_vars

(***************************************************************************)
(* SpecMount: the startup check on every mount table of up to MaxMounts    *)
(* lines, with and without the backup root.                                *)
(***************************************************************************)
FsTypes == {"tmpfs", "overlay", "vfat"}
MountPoints == {<<"/">>, BOOT_USB, BACKUP_DEST}
Lines == {Line(f, m) : f \in FsTypes, m \in MountPoints}
MountTables == UNION {[1..n -> Lines] : n \in 0..MaxMounts}
Channels == {"ok", "fail", "missing"}

InitMount ==
    /\ primary = RootOnly
    /\ backup \in {Empty, RootOnly}
    /\ dry_run_mode \in BOOLEAN
    /\ mounts \in MountTables
    /\ channel \in Channels
    /\ denied = {}
    /\ InitProgram

NextMount == StartCheck

SpecMount == InitMount /\ [][NextMount]_vars

(***************************************************************************)
(* SpecNotify: a sequence of notify_host calls by one thread as time       *)
(* passes.  SpecNotify2: the same calls made by two threads, each call in  *)
(* two steps, the test of the cooldown (47-55) and the dispatch with the   *)
(* update of last_error_notification (57-69).                              *)
(***************************************************************************)
InitNotify ==
    /\ primary = RootOnly
    /\ backup = RootOnly
    /\ dry_run_mode \in BOOLEAN
    /\ mounts = GoodMounts
    /\ channel \in Channels
    /\ denied = {}
    /\ InitProgram

\* An alert-worthy failure: its handler calls notify_host.
NotifyCall ==
    /\ Len(calls) < MaxCalls
    /\ Notified
    /\ calls' = Append(calls,
                       [t |-> now, sent |-> sent' # sent,
                        logged |-> NotifyHost(now, last_error_notification,
                                              dry_run_mode, channel).logged])
    /\ UNCHANGED <<primary, backup, dry_run_mode, mounts, channel, denied, now,
                   last_path_check, sync_lock, pc, ret, op, walkDirs, walkFiles,
                   changes, events, watching, exitStatus, nctx, lastCheck,
                   exclTouched, run, prevChanges, sawError, nmut, ticks,
                   recon, early, delivered, interrupts>>

NextNotify ==
    \/ NotifyCall
    \/ Tick(MaxNotifyTicks)

SpecNotify == InitNotify /\ [][NextNotify]_vars

\* Lines 47-55 in thread c: the time is read and the cooldown and dry-run tested.
NotifyEnter(c) ==
    /\ nctx[c].pc = "idle"
    /\ Len(calls) < MaxCalls
    /\ calls' = Append(calls,
                       [t |-> now, sent |-> FALSE,
                        logged |-> NotifyHost(now, last_error_notification,
                                              dry_run_mode, channel).logged])
    /\ nctx' = IF CooldownActive(now, last_error_notification) \/ dry_run_mode
               THEN nctx
               ELSE [nctx EXCEPT ![c] = [pc |-> "dispatch", t |-> now]]
    /\ UNCHANGED <<primary, backup, dry_run_mode, mounts, channel, denied, now,
                   last_error_notification, last_path_check, sync_lock, pc, ret, op,
                   walkDirs, walkFiles, changes, events, watching, exitStatus, sent,
                   lastCheck, exclTouched, run, prevChanges, sawError, nmut, ticks,
                   alerts, recon, early, delivered, interrupts>>

\* Lines 57-69 in thread c: the notify script runs; if it succeeds
\* last_error_notification becomes the time read at line 47.
NotifyDispatch(c) ==
    /\ nctx[c].pc = "dispatch"
    /\ nctx' = [nctx EXCEPT ![c] = Idle]
    /\ IF channel = "ok"
       THEN /\ sent' = Append(sent, now)
            /\ last_error_notification' = nctx[c].t
       ELSE UNCHANGED <<sent, last_error_notification>>
    /\ UNCHANGED <<primary, backup, dry_run_mode, mounts, channel, denied, now,
                   last_path_check, sync_lock, pc, ret, op, walkDirs, walkFiles,
                   changes, events, watching, exitStatus, calls, lastCheck,
                   exclTouched, run, prevChanges, sawError, nmut, ticks,
                   alerts, recon, early, delivered, interrupts>>

NextNotify2 ==
    \/ \E c \in Contexts : NotifyEnter(c)
    \/ \E c \in Contexts : NotifyDispatch(c)
    \/ Tick(MaxTicks)

SpecNotify2 == InitNotify /\ [][NextNotify2]_vars

(***************************************************************************)
(* SpecEvents: the event loop handed one event of any kind the watch can   *)
(* report, for any path of the universe, on any pair of a primary tree and *)
(* a backup tree that mirrors some primary tree (events lag the changes    *)
(* they report), with a check due, the volumes mounted or not, a user      *)
(* interrupt at any point of the loop, and an error of the event source.   *)
(***************************************************************************)
FileKinds == {"IN_CLOSE_WRITE", "IN_MOVED_TO", "IN_DELETE", "IN_MOVED_FROM",
              "IN_CREATE", "IN_MODIFY"}
DirKinds == {"IN_MOVED_TO", "IN_DELETE", "IN_MOVED_FROM", "IN_CREATE"}
SelfKinds == {"IN_DELETE_SELF", "IN_MOVE_SELF"}

\* The events of the watch: of a file in a watched directory, of a directory
\* in a watched directory, and of a watched directory itself (empty filename).
EventU ==
    {Event({k}, Parent(p), Basename(p)) : k \in FileKinds, p \in FilePaths}
    \cup {Event({k, "IN_ISDIR"}, Parent(p), Basename(p)) :
             k \in DirKinds, p \in DirPaths \ {Root}}
    \cup {Event({k}, d, <<>>) : k \in SelfKinds, d \in DirPaths}

InitEvents ==
    /\ primary \in PrimaryTrees \cup {Empty}
    /\ backup \in {Mirror(P) : P \in PrimaryTrees}
    /\ dry_run_mode \in BOOLEAN
    /\ mounts \in {GoodMounts, BareMounts}
    /\ channel = "ok"
    /\ denied \in {{}, {<<NameC, NameN>>}}
    /\ now = StartTime
    /\ last_error_notification = 0
    /\ last_path_check = StartTime - path_check_interval
    /\ sync_lock = "free"
    /\ pc = "loop"
    /\ ret = "none"
    /\ op = NoOp
    /\ walkDirs = <<>>
    /\ walkFiles = <<>>
    /\ changes = 0
    /\ events = <<>>
    /\ watching = TRUE
    /\ exitStatus = -1
    /\ sent = <<>>
    /\ calls = <<>>
    /\ nctx = [c \in Contexts |-> Idle]
    /\ lastCheck = [at |-> StartTime - path_check_interval, ok |-> TRUE,
                    table |-> GoodMounts, root |-> TRUE]
    /\ exclTouched = {}
    /\ run = 1
    /\ prevChanges = 0
    /\ sawError = FALSE
    /\ nmut = 0
    /\ ticks = 0
    /\ alerts = <<>>
    /\ recon = NoRecon(backup)
    /\ early = {}
    /\ delivered = <<>>
    /\ interrupts = 0

\* Line 261: the event source yields an event.
Deliver ==
    /\ pc = "loop" /\ exitStatus = -1 /\ delivered = <<>>
    /\ \E e \in EventU : events' = <<e>> /\ delivered' = <<e>>
    /\ UNCHANGED <<primary, backup, dry_run_mode, mounts, channel, denied, now,
                   last_error_notification, last_path_check, sync_lock, pc, ret, op,
                   walkDirs, walkFiles, changes, watching, exitStatus, sent, calls,
                   nctx, lastCheck, exclTouched, run, prevChanges, sawError, nmut,
                   ticks, alerts, recon, early, interrupts>>

\* The trees an interrupted operation can leave between B and its result T:
\* some of its writes are made, and an entry exists only inside a directory.
Between(B, T) ==
    {t \in {[q \in PathU |-> IF q \in D THEN T[q] ELSE B[q]] :
               D \in SUBSET {x \in PathU : B[x] # T[x]}} : WellFormed(t)}

\* Lines 305-306: KeyboardInterrupt while the loop waits for an event.  It is
\* not an Exception, so no `except Exception` of an operation catches it.
InterruptWaiting ==
    /\ pc = "loop" /\ exitStatus = -1 /\ interrupts = 0
    /\ interrupts' = 1
    /\ pc' = "exit"
    /\ exitStatus' = 0
    /\ UNCHANGED <<primary, backup, dry_run_mode, mounts, channel, denied, now,
                   last_error_notification, last_path_check, sync_lock, ret, op,
                   walkDirs, walkFiles, changes, events, watching, sent, calls,
                   nctx, lastCheck, exclTouched, run, prevChanges, sawError, nmut,
                   ticks, alerts, recon, early, delivered>>

\* KeyboardInterrupt inside an operation of the loop: `with sync_lock`
\* releases the lock and the interrupt reaches line 305, with the operation's
\* writes made in part.
InterruptOperation ==
    /\ pc \in {"locked", "mkdir"} /\ ret # "fwd" /\ exitStatus = -1 /\ interrupts = 0
    /\ interrupts' = 1
    /\ LET r == IF pc = "mkdir" THEN MkdirBody(dry_run_mode, backup, op.p)
                ELSE GatedBody(op.kind, dry_run_mode, primary, backup, op.p, denied)
       IN  backup' \in Between(backup, r.t)
    /\ pc' = "exit"
    /\ exitStatus' = 0
    /\ sync_lock' = "free"
    /\ op' = NoOp
    /\ UNCHANGED <<primary, dry_run_mode, mounts, channel, denied, now,
                   last_error_notification, last_path_check, ret, walkDirs,
                   walkFiles, changes, events, watching, sent, calls, nctx,
                   lastCheck, exclTouched, run, prevChanges, sawError, nmut, ticks,
                   alerts, recon, early, delivered>>

\* KeyboardInterrupt inside the try of lines 159-166, in remove_file's loop
\* over the parent directories: the bare `except:` catches it and breaks, and
\* remove_file returns to the loop as if nothing had happened.
InterruptPruning ==
    /\ pc = "locked" /\ ret # "fwd" /\ op.kind = "remove_file"
    /\ exitStatus = -1 /\ interrupts = 0
    /\ Exists(backup, op.p) /\ ~dry_run_mode /\ Parent(op.p) # Root
    /\ LET r == Remove(backup, op.p, denied)
       IN  /\ r.ok
           /\ backup' \in Between(r.t, PruneFrom(r.t, Parent(op.p), denied))
    /\ interrupts' = 1
    /\ pc' = "loop"
    /\ sync_lock' = "free"
    /\ op' = NoOp
    /\ UNCHANGED <<primary, dry_run_mode, mounts, channel, denied, now,
                   last_error_notification, last_path_check, ret, walkDirs,
                   walkFiles, changes, events, watching, exitStatus, sent, calls,
                   nctx, lastCheck, exclTouched, run, prevChanges, sawError, nmut,
                   ticks, alerts, recon, early, delivered>>

\* Lines 308-315: the event source raises an exception; it is logged,
\* notify_host is called with the critical alert, and it is raised again.
Crash ==
    /\ pc = "loop" /\ exitStatus = -1
    /\ NotifiedAs("critical")
    /\ pc' = "exit"
    /\ exitStatus' = 1
    /\ UNCHANGED <<primary, backup, dry_run_mode, mounts, channel, denied, now,
                   last_path_check, sync_lock, ret, op, walkDirs, walkFiles,
                   changes, events, watching, calls, nctx, lastCheck, exclTouched,
                   run, prevChanges, sawError, nmut, ticks, recon, early,
                   delivered, interrupts>>

NextEvents ==
    \/ Deliver
    \/ HandleEvent
    \/ RunOp
    \/ MkdirEvent
    \/ InterruptWaiting
    \/ InterruptOperation
    \/ InterruptPruning
    \/ Crash

SpecEvents == InitEvents /\ [][NextEvents]_vars

(***************************************************************************)
(* The claims.                                                             *)
(***************************************************************************)
Excluded(p) == HasExcludedPattern(PrimaryStr(p))

\* The mapping invariant on the files: a non-excluded primary file has a backup
\* file of the same size and mtime, and a non-excluded backup file has a
\* primary file.
FilesMirrored(P, B) ==
    \A p \in PathU : ~Excluded(p) =>
        /\ P[p].k = "file" => B[p] = P[p]
        /\ B[p].k = "file" => P[p].k = "file"

\* The mapping invariant on the directories: the non-excluded directories of
\* the two trees are the same.
DirsMirrored(P, B) ==
    \A p \in PathU : ~Excluded(p) => (P[p].k = "dir" <=> B[p].k = "dir")

MappingInvariant(P, B) == FilesMirrored(P, B) /\ DirsMirrored(P, B)

\* C2: when initial_sync has run to its end with dry-run off and no error, the
\* mapping invariant holds of the whole tree: files with equal size and mtime,
\* every primary directory in the backup, nothing in the backup without a
\* primary counterpart.
C2_ReconcilerParity ==
    (pc = "synced" /\ ~dry_run_mode /\ denied = {} /\ ~sawError)
        => MappingInvariant(primary, backup)

\* C3: a second run of the reconciler on the trees the first run left makes
\* and reports no change.
C3_SecondRunMakesNoChange == run = 2 => changes = 0

\* C4: no operation touches a path that contains an excluded pattern.
C4_ExcludedNeverTouched == exclTouched = {}

\* C7: a backup-tree mutation is in flight only while its thread holds sync_lock.
C7_MutationsHoldTheGate == op.kind # "none" => sync_lock = "main"

\* The event loop waits for an event and none is pending.
Quiescent == pc = "loop" /\ events = <<>>

Consume == pc = "loop" /\ events # <<>> /\ events' = Tail(events)

\* What the claim asks of a step that takes an event when a check is due.
FailClosed ==
    /\ lastCheck'.at = now
    /\ ~lastCheck'.ok => (pc' = "exit" /\ exitStatus' = 1 /\ backup' = backup)

\* Once the process has exited it stays so and the backup tree is left alone.
Halted == pc = "exit" => (pc' = "exit" /\ backup' = backup /\ events' = events)

\* C5 as stated: when the check interval has elapsed since the last call of
\* check_paths, the loop calls it before it applies the next event, and if it
\* fails the process exits with status 1 and this event and every later one
\* leave the backup tree alone.
C5_CheckedSinceLastCheck ==
    [][/\ (Consume /\ now - lastCheck.at >= path_check_interval) => FailClosed
       /\ Halted]_vars

\* C5 as amended: the interval is counted from last_path_check, which is set
\* when the watch is created (after initial_sync) and at each check the loop
\* makes that succeeds.
C5_FailClosed ==
    [][/\ (Consume /\ now - last_path_check >= path_check_interval) => FailClosed
       /\ Halted]_vars

\* A periodic check has failed and stopped the loop.
C5_Witness ==
    /\ pc = "exit" /\ exitStatus = 1 /\ watching
    /\ ~lastCheck.ok /\ lastCheck.at - StartTime >= path_check_interval

\* C10: in dry-run mode no step changes the backup tree, and the orphan
\* clean-up pass is never entered.
C10_DryRunFrame ==
    [][dry_run_mode => (backup' = backup /\ pc' \notin {"orphan", "orphan_rm"})]_vars

\* Dry-run: the reconciler and the event loop have handled changes of the
\* primary tree that the backup tree does not show.
C10_Witness ==
    /\ dry_run_mode /\ Quiescent /\ nmut = MaxSpecMutations
    /\ \E p \in PathU : primary[p].k = "dir" /\ p # Root /\ backup[p].k = "none"
    /\ \E p \in PathU : primary[p].k = "none" /\ backup[p].k = "file"

\* The live mount table has a line for this very path with a real filesystem.
ReallyMounted(path, table) ==
    \E i \in 1..Len(table) : table[i].mnt = path /\ table[i].fstype \notin PseudoFs

\* C6: check_paths returns true only if the primary root and the backup root are
\* themselves mount points of a filesystem that is not a pseudo one and the
\* backup root exists.
C6_CheckMeansMounted ==
    lastCheck.ok => /\ ReallyMounted(BOOT_USB, lastCheck.table)
                    /\ lastCheck.root
                    /\ ReallyMounted(BACKUP_DEST, lastCheck.table)

\* C8: with dry-run off and a working channel, a call of notify_host is
\* dispatched exactly when no earlier dispatch lies less than the cooldown
\* before it: one dispatch per window, the next one once the window has passed,
\* no two dispatches less than the cooldown apart.
C8_Cooldown ==
    (~dry_run_mode /\ channel = "ok") =>
        \A k \in 1..Len(calls) :
            calls[k].sent <=>
                \A j \in 1..(k - 1) :
                    calls[j].sent => calls[k].t - calls[j].t >= notification_cooldown

\* Two failures in one window gave one dispatch, a third one after the window
\* a second.
C8_Witness ==
    /\ ~dry_run_mode /\ channel = "ok" /\ Len(calls) = 3 /\ Len(sent) = 2
    /\ calls[1].sent /\ ~calls[2].sent /\ calls[3].sent
    /\ calls[2].t - calls[1].t < notification_cooldown

\* C9: in no interleaving of two concurrent notify_host calls do both pass the
\* cooldown gate: no two dispatches fall in one cooldown window.
C9_OneDispatchPerWindow ==
    \A i, j \in 1..Len(sent) : i < j => sent[j] - sent[i] >= notification_cooldown

\* initial_sync has reached line 242.
ReconcilerDone == pc = "synced"

\* The backup files with no primary entry at their path.
Orphans(P, B) == {f \in PathU : B[f].k = "file" /\ P[f].k = "none"}

\* What the orphan pass owes an orphan f of the tree initial_sync started from.
OrphanSettled(f) ==
    IF dry_run_mode
    THEN backup[f] = recon.backup0[f]
    ELSE /\ backup[f].k = "none"
         /\ f \in recon.removed
         /\ changes >= Cardinality(recon.removed)

ActionFails == ~sawError /\ sawError'

\* C12: when one of the four actions of the event loop (copy file, delete
\* file, delete tree, create directory) fails, the failure is caught inside
\* the action, notify_host is called exactly once, and the loop goes on to the
\* next event.
C12_ErrorContained ==
    [][ActionFails => (Len(alerts') = Len(alerts) + 1 /\ pc' = "loop")]_vars

\* A step in which check_paths is called and returns false.
CheckFails == lastCheck' # lastCheck /\ ~lastCheck'.ok

\* A step in which the user's interrupt arrives.
Interrupted == interrupts' # interrupts

\* A step in which the critical alert is handed to notify_host.
CriticalAlert == alerts' # alerts /\ alerts'[Len(alerts')] = "critical"

\* C13: a failed check ends the process with status 1 and without the critical
\* alert; a user interrupt ends the loop with status 0 and no alert; an
\* exception that escapes the loop gives one notify_host call with the critical
\* alert and ends the process; and once the process has ended no event is
\* applied.
C13_TerminationOutcomes ==
    [][/\ CheckFails => (pc' = "exit" /\ exitStatus' = 1 /\ ~CriticalAlert)
       /\ Interrupted => (pc' = "exit" /\ exitStatus' = 0 /\ alerts' = alerts)
       /\ CriticalAlert => (pc' = "exit" /\ exitStatus' = 1
                              /\ Len(alerts') = Len(alerts) + 1)
       /\ pc = "exit" => (backup' = backup /\ events' = events)]_vars

\* The loop has taken the event it was handed and is done with it.
Processed == delivered # <<>> /\ Quiescent /\ interrupts = 0

\* The event reports that its path was moved out of the primary tree or
\* deleted, and the path, not excluded, is no longer in the primary tree.
GoneFromPrimary(e) ==
    /\ ("IN_MOVED_FROM" \in e.types \/ "IN_DELETE_SELF" \in e.types)
    /\ ~Excluded(FullPath(e))
    /\ ~PathExists(primary, e)

\* C14: after a moved-out or delete-self event for a path that is no longer in
\* the primary tree, no backup entry is left at or below the mapped path (here
\* for the event of a directory whose backup directory is not the root, with
\* dry-run off and nothing denied).
C14_SubtreeDeleted ==
    (/\ Processed /\ ~dry_run_mode /\ denied = {}
     /\ GoneFromPrimary(delivered[1])
     /\ ("IN_ISDIR" \in delivered[1].types \/ Slash(delivered[1]))
     /\ FullPath(delivered[1]) # Root
     /\ recon.backup0[FullPath(delivered[1])].k = "dir")
        => \A q \in PathU : IsPrefix(FullPath(delivered[1]), q) => backup[q].k = "none"

\* The action the dispatch table gives an event: that of the first row whose
\* kinds match, and none if that row's precondition fails.
TableAction(e) ==
    IF Excluded(FullPath(e)) THEN "none"
    ELSE IF e.types \cap {"IN_CLOSE_WRITE", "IN_MOVED_TO"} # {}
         THEN IF ~Slash(e) /\ Kind(primary, FullPath(e)) = "file" THEN "copy" ELSE "none"
    ELSE IF e.types \cap {"IN_DELETE", "IN_MOVED_FROM"} # {} THEN "remove_file"
    ELSE IF "IN_DELETE_SELF" \in e.types
         THEN IF PathExists(primary, e) THEN "none" ELSE "rmtree"
    ELSE IF {"IN_CREATE", "IN_ISDIR"} \subseteq e.types THEN "mkdir"
    ELSE "none"

\* The action the loop has begun after a step, "none" if it has begun none.
ActionBegun == IF pc' \in {"locked", "mkdir"} THEN op'.kind ELSE "none"

\* C15: the loop answers an event with the one action of the first matching
\* row of the dispatch table, on the event's path, and with no action if that
\* row's precondition fails or the path is excluded.
C15_FirstMatchWins ==
    [][(Consume /\ pc' # "exit") =>
          /\ ActionBegun = TableAction(Head(events))
          /\ ActionBegun # "none" => op'.p = FullPath(Head(events))
          /\ ActionBegun = "none" => (backup' = backup /\ pc' = "loop")]_vars

\* A moved-out event of a directory that is gone has been given to the file
\* delete, whose os.remove has raised, and not to the tree delete.
C15_Witness ==
    /\ Processed /\ ~dry_run_mode /\ sawError
    /\ delivered[1].types = {"IN_MOVED_FROM", "IN_ISDIR"}
    /\ ~PathExists(primary, delivered[1])
    /\ backup[FullPath(delivered[1])].k = "dir"

\* A step of an operation of the loop that writes to the backup tree.
LoopWrite == backup' # backup /\ pc \in {"locked", "mkdir"} /\ ret # "fwd"

\* The directories a step removes from the backup tree.
DirsRemoved == {d \in PathU : backup[d].k = "dir" /\ backup'[d].k = "none"}

\* C16: no action of the loop removes the backup root or, aimed at the root,
\* empties it; and the directories a file delete removes are parents of the
\* deleted file other than the root, each left empty by the removal below it.
C16_RootSurvives ==
    [][LoopWrite =>
          /\ backup'[Root] = backup[Root]
          /\ (Children(backup, Root) # {} /\ Children(backup', Root) = {})
                => op.p # Root
          /\ op.kind = "remove_file" =>
                \A d \in DirsRemoved :
                    /\ d # Root /\ IsPrefix(d, op.p) /\ d # op.p
                    /\ \A q \in Children(backup, d) : IsPrefix(q, op.p)]_vars

\* C17: when the copy or the removal of one file raises, initial_sync still
\* runs to its end, and every other path of the backup tree is then what
\* initial_sync makes of it when nothing is denied.
C17_PerFileTolerance ==
    /\ ReconcilerDone =>
          \A q \in PathU \ recon.failed :
              backup[q] = initial_sync(dry_run_mode, primary, recon.backup0)[q]
    /\ recon.failed # {} => (pc # "exit" /\ exitStatus = -1)

\* The copy or the removal of a denied file has raised, and a file that comes
\* after it in the walk has been copied or removed.
C17_Witness ==
    /\ ReconcilerDone /\ ~dry_run_mode /\ recon.failed # {} /\ recon.failed \subseteq denied
    /\ \/ /\ primary[<<NameN, NameN>>].k = "file"
          /\ backup[<<NameN, NameN>>] = primary[<<NameN, NameN>>]
          /\ recon.backup0[<<NameN, NameN>>] # primary[<<NameN, NameN>>]
       \/ <<NameN, NameN>> \in recon.removed

\* A step that is a call of notify_host.
NotifyCalled == Len(calls') = Len(calls) + 1

\* C18: last_error_notification changes only in a call that is not in dry-run
\* mode and whose notify script ran and succeeded, and then to the time of
\* that call; a call dropped by the cooldown, made in dry-run mode or whose
\* dispatch fails leaves it alone; and in dry-run mode every call is logged.
C18_TimestampFrame ==
    [][/\ last_error_notification' # last_error_notification =>
             /\ NotifyCalled /\ ~dry_run_mode /\ channel = "ok"
             /\ Len(sent') = Len(sent) + 1
             /\ last_error_notification' = now
       /\ (NotifyCalled /\ dry_run_mode) => calls'[Len(calls')].logged]_vars

\* Three dry-run calls within one cooldown window have all been logged and
\* none has started a window.
C18_Witness ==
    /\ dry_run_mode /\ Len(calls) = 3 /\ last_error_notification = 0
    /\ calls[3].t - calls[1].t < notification_cooldown
    /\ \A k \in 1..3 : calls[k].logged /\ ~calls[k].sent

\* C19: the count initial_sync reports is the number of changes it has made to
\* the backup tree: the files copied plus the orphans removed.
C19_CountIsChangesMade ==
    ReconcilerDone => changes = recon.copied + Cardinality(recon.removed)

\* The backup tree shows the primary tree's entry at p.
Reflected(p) ==
    /\ primary[p].k = "file" => backup[p] = primary[p]
    /\ primary[p].k = "dir" => backup[p].k = "dir"
    /\ primary[p].k = "none" => backup[p].k = "none"

\* C20: a change of the primary tree made when the forward walk of
\* initial_sync is over and the watch does not exist yet shows in the backup
\* tree once the event loop runs and has no event left.
C20_NoChangeLost ==
    (Quiescent /\ ~dry_run_mode) => \A p \in early : Reflected(p)

====
